---- MODULE Spec2Model ----
(***************************************************************************)
(* A model of the HyperLogLog sketch of src/hll: the MurmurHash3 32-bit   *)
(* hash, the typed hash dispatch, and hyper_log_log<T, k> with its         *)
(* operations add, count, clear, merge, operator+= and operator+.          *)
(*                                                                         *)
(* A uint32_t is modelled as the pair <<hi, lo>> of its upper and lower    *)
(* 16 bits, each a number in 0..65535, so that the wrap-around of the      *)
(* 32-bit multiplications, additions and shifts is kept exactly and no     *)
(* intermediate number leaves the 32-bit signed integers of TLC.           *)
(***************************************************************************)
EXTENDS Integers, Sequences, FiniteSets, TLC

\* ------------------------------------------------------------------------
\* uint32_t arithmetic (hash_result, and the locals of murmur_hash)
\* ------------------------------------------------------------------------

\* 2^e for e in 0..30
Pow2(e) == 2 ^ e

Half == Pow2(16)

\* the uint32_t whose upper and lower 16 bits are the numbers hi and lo
Word(hi, lo) == <<hi, lo>>

HighHalf(a) == a[1]

LowHalf(a) == a[2]

RECURSIVE XorBits(_, _, _)
\* the bitwise exclusive or of the low w bits of the numbers x and y
XorBits(x, y, w) ==
    IF w = 0 THEN 0
    ELSE ((x + y) % 2) + 2 * XorBits(x \div 2, y \div 2, w - 1)

RECURSIVE OrBits(_, _, _)
\* the bitwise or of the low w bits of the numbers x and y
OrBits(x, y, w) ==
    IF w = 0 THEN 0
    ELSE (IF x % 2 = 1 \/ y % 2 = 1 THEN 1 ELSE 0) + 2 * OrBits(x \div 2, y \div 2, w - 1)

\* a ^ b
Xor32(a, b) == Word(XorBits(HighHalf(a), HighHalf(b), 16), XorBits(LowHalf(a), LowHalf(b), 16))

\* a | b
Or32(a, b) == Word(OrBits(HighHalf(a), HighHalf(b), 16), OrBits(LowHalf(a), LowHalf(b), 16))

\* a << s for s in 0..31, the bits shifted out at the top are lost
Shl32(a, s) ==
    IF s >= 16 THEN Word((LowHalf(a) * Pow2(s - 16)) % Half, 0)
    ELSE Word(((HighHalf(a) * Pow2(s)) % Half) + (LowHalf(a) \div Pow2(16 - s)),
              (LowHalf(a) * Pow2(s)) % Half)

\* a >> s for s in 0..31, zeros shifted in at the top (the operand is unsigned)
Shr32(a, s) ==
    IF s >= 16 THEN Word(0, HighHalf(a) \div Pow2(s - 16))
    ELSE Word(HighHalf(a) \div Pow2(s),
              ((HighHalf(a) % Pow2(s)) * Pow2(16 - s)) + (LowHalf(a) \div Pow2(s)))

\* a + b modulo 2^32
Add32(a, b) ==
    LET lo == LowHalf(a) + LowHalf(b)
        hi == HighHalf(a) + HighHalf(b) + (lo \div Half)
    IN  Word(hi % Half, lo % Half)

\* the 32-bit product of the 16-bit numbers x and y
Mul16(x, y) ==
    LET p0 == (x % 256) * y
        p1 == (x \div 256) * y
        s  == p0 + (p1 % 256) * 256
    IN  Word((s \div Half) + (p1 \div 256), s % Half)

\* a * b modulo 2^32
Mul32(a, b) ==
    LET ll == Mul16(LowHalf(a), LowHalf(b))
        hl == Mul16(HighHalf(a), LowHalf(b))
        lh == Mul16(LowHalf(a), HighHalf(b))
    IN  Word((HighHalf(ll) + LowHalf(hl) + LowHalf(lh)) % Half, LowHalf(ll))

\* ------------------------------------------------------------------------
\* murmur_hash.hxx
\* ------------------------------------------------------------------------

c1 == Word(52382, 11601)      \* 0xcc9e2d51

c2 == Word(7047, 13715)       \* 0x1b873593

r1 == 15

r2 == 13

m == Word(0, 5)

n == Word(58964, 27492)       \* 0xe6546b64

fmix1 == Word(34283, 51819)   \* 0x85ebca6b

fmix2 == Word(49842, 44597)   \* 0xc2b2ae35

\* chunks[i]: the i-th (from 0) 4-byte chunk of key read as a uint32_t on a
\* little-endian machine; key is the sequence of the bytes at the pointer
Chunk(key, i) ==
    Word(key[4 * i + 3] + 256 * key[4 * i + 4], key[4 * i + 1] + 256 * key[4 * i + 2])

\* one round of the loop over the chunks
MixChunk(h, chunk) ==
    LET k1 == Mul32(chunk, c1)
        k2 == Or32(Shl32(k1, r1), Shr32(k1, 32 - r1))
        k3 == Mul32(k2, c2)
        h1 == Xor32(h, k3)
        h2 == Or32(Shl32(h1, r2), Shr32(h1, 32 - r2))
    IN  Add32(Mul32(h2, m), n)

RECURSIVE MixChunks(_, _, _, _)
\* the loop for (i = 0u; i < chunk_length; ++i)
MixChunks(h, key, i, chunk_length) ==
    IF i >= chunk_length THEN h
    ELSE MixChunks(MixChunk(h, Chunk(key, i)), key, i + 1, chunk_length)

\* the switch (length & 3u) over the remaining bytes, with its fall-through
MixTail(h, key, length) ==
    LET chunk_length == length \div 4
        tail(j) == key[chunk_length * 4 + j + 1]
        rem == length % 4
        k0 == Word(0, 0)
        k1 == IF rem = 3 THEN Xor32(k0, Word(tail(2), 0)) ELSE k0
        k2 == IF rem >= 2 THEN Xor32(k1, Word(0, tail(1) * 256)) ELSE k1
        k3 == Xor32(k2, Word(0, tail(0)))
        k4 == Mul32(k3, c1)
        k5 == Or32(Shl32(k4, r1), Shr32(k4, 32 - r1))
        k6 == Mul32(k5, c2)
    IN  IF rem = 0 THEN h ELSE Xor32(h, k6)

\* murmur_hash(key, length, seed); length < 2^16 in every use of the model
murmur_hash(key, length, seed) ==
    LET chunk_length == length \div 4
        h0 == MixChunks(seed, key, 0, chunk_length)
        h1 == MixTail(h0, key, length)
        h2 == Xor32(h1, Word(0, length))
        h3 == Xor32(h2, Shr32(h2, 16))
        h4 == Mul32(h3, fmix1)
        h5 == Xor32(h4, Shr32(h4, 13))
        h6 == Mul32(h5, fmix2)
    IN  Xor32(h6, Shr32(h6, 16))

\* ------------------------------------------------------------------------
\* hash.hxx: the typed hash dispatch, for the value type int of main.cpp
\* ------------------------------------------------------------------------

\* sizeof(int)
sizeof_T == 4

\* the object representation of an int on a little-endian machine: its
\* sizeof(int) bytes in two's complement, the least significant first
ObjectBytes(value) ==
    [j \in 1..sizeof_T |-> (value \div Pow2(8 * (j - 1))) % 256]

\* hash(const T& value) for a fundamental T
hash_fundamental(value) == murmur_hash(ObjectBytes(value), sizeof_T, Word(0, 0))

\* ------------------------------------------------------------------------
\* The values the model adds.  MurmurHash3 is a bijection on 4-byte keys;
\* the pool holds ints whose hashes meet in a register, differ in rank and
\* reach the largest rank:
\*   -2089875627 -> 0x80000000     -142980497  -> 0x88000002
\*   9           -> 0x0612a8b3     644004873   -> 0x80000004
\*   5           -> 0x0e1bbb7e     -1035494534 -> 0x00000000
\* ------------------------------------------------------------------------

ValuePool == <<-2089875627, -142980497, 9, 644004873, 5, -1035494534>>

\* how many values of the pool the callers add
NumValues == 2

Values == {ValuePool[j] : j \in 1..NumValues}

\* hll::hash on the values, computed once
hash == [value \in Values |-> hash_fundamental(value)]

\* ------------------------------------------------------------------------
\* helpers.hxx
\* ------------------------------------------------------------------------

\* a max that returns its left argument
max_left(lhs, rhs) == lhs

\* a max with the comparison turned around
max_less(lhs, rhs) == IF lhs < rhs THEN lhs ELSE rhs

\* hll::helpers::max
max(lhs, rhs) == IF lhs > rhs THEN lhs ELSE rhs

\* a fill that takes the array by value and so fills a copy
array_fill_by_value(array, filler) == array

\* hll::helpers::array_fill
array_fill(array, filler) == [i \in DOMAIN array |-> filler]

\* ------------------------------------------------------------------------
\* hyper_log_log.hxx: hyper_log_log<T, k>
\* ------------------------------------------------------------------------

\* a range check with a strict lower bound
static_assert_k_strict(kk) == kk > 4 /\ kk <= 30

\* static_assert(k >= 4 && k <= 30, ...)
static_assert_k(kk) == kk >= 4 /\ kk <= 30

\* registers_count = 1u << k
registers_count(kk) == Pow2(kk)

\* k_alternative = static_cast<uint8_t>(32 - k)
k_alternative(kk) == (32 - kk) % 256

\* static_cast<register_type>(x), register_type = int8_t
register_cast(x) == ((x + 128) % 256) - 128

\* container_type m_registers{}: registers_count registers, value-initialised
ZeroRegisters(kk) == [i \in 0..(registers_count(kk) - 1) |-> 0]

\* value & mask for a mask 2^w - 1 with w <= 16
AndLow(value, w) == LowHalf(value) % Pow2(w)

\* count_bits without the last step, c -= value & 1
count_bits_no_last_step(value) ==
    IF AndLow(value, 1) = 1 THEN 0
    ELSE
      LET s16 == AndLow(value, 16) = 0
          v16 == IF s16 THEN Shr32(value, 16) ELSE value
          s8  == AndLow(v16, 8) = 0
          v8  == IF s8 THEN Shr32(v16, 8) ELSE v16
          s4  == AndLow(v8, 4) = 0
          v4  == IF s4 THEN Shr32(v8, 4) ELSE v8
          s2  == AndLow(v4, 2) = 0
      IN  1 + (IF s16 THEN 16 ELSE 0) + (IF s8 THEN 8 ELSE 0)
            + (IF s4 THEN 4 ELSE 0) + (IF s2 THEN 2 ELSE 0)

\* count_bits(hash_result value)
count_bits(value) ==
    IF AndLow(value, 1) = 1 THEN 0
    ELSE
      LET c0 == 1
          s16 == AndLow(value, 16) = 0
          v16 == IF s16 THEN Shr32(value, 16) ELSE value
          c16 == IF s16 THEN c0 + 16 ELSE c0
          s8  == AndLow(v16, 8) = 0
          v8  == IF s8 THEN Shr32(v16, 8) ELSE v16
          c8  == IF s8 THEN c16 + 8 ELSE c16
          s4  == AndLow(v8, 4) = 0
          v4  == IF s4 THEN Shr32(v8, 4) ELSE v8
          c4  == IF s4 THEN c8 + 4 ELSE c8
          s2  == AndLow(v4, 2) = 0
          v2  == IF s2 THEN Shr32(v4, 2) ELSE v4
          c2b == IF s2 THEN c4 + 2 ELSE c4
      IN  c2b - AndLow(v2, 1)

\* the number a uint32_t below 2^31 holds
ToNat(a) == HighHalf(a) * Half + LowHalf(a)

\* an index shifted by one bit too few
RegisterIndexShort(hash_value, kk) == ToNat(Shr32(hash_value, k_alternative(kk) - 1))

\* index = hash_value >> k_alternative
RegisterIndex(hash_value, kk) == ToNat(Shr32(hash_value, k_alternative(kk)))

\* a rank without the std::min
RankUnclamped(hash_value, kk) == count_bits(hash_value) + 1

\* rank = std::min(static_cast<uint32_t>(k_alternative), bits_count) + 1
Rank(hash_value, kk) ==
    LET bits_count == count_bits(hash_value)
    IN  (IF bits_count < k_alternative(kk) THEN bits_count ELSE k_alternative(kk)) + 1

\* a register update that stores the rank without the std::max
RaiseRegisterAssign(reg, rank) == register_cast(rank)

\* a register update that accumulates the ranks
RaiseRegisterSum(reg, rank) == register_cast(reg + rank)

\* static_cast<register_type>(std::max(static_cast<uint32_t>(reg), rank)):
\* a negative register converts to a uint32_t of at least 2^32 - 128, which
\* is above every rank and converts back to the register itself
RaiseRegister(reg, rank) ==
    IF reg < 0 THEN reg
    ELSE register_cast(IF reg < rank THEN rank ELSE reg)

\* add(const value_type& value) on the registers of a sketch of precision kk
add(registers, value, kk) ==
    LET hash_value == hash[value]
        index == RegisterIndex(hash_value, kk)
        rank == Rank(hash_value, kk)
    IN  [registers EXCEPT ![index] = RaiseRegister(@, rank)]

\* a merge that leaves the registers as they are
merge_nothing(registers, rhs) == registers

\* merge(const this_type& rhs)
merge(registers, rhs) ==
    [i \in DOMAIN registers |-> max(registers[i], rhs[i])]

\* operator+=(const this_type& rhs)
operator_plus_assign(registers, rhs) == merge(registers, rhs)

\* operator+(const this_type& rhs) const
operator_plus(registers, rhs) ==
    LET res == registers
    IN  operator_plus_assign(res, rhs)

\* clear()
clear(registers) == array_fill(registers, 0)

\* ------------------------------------------------------------------------
\* count().  The doubles of count() are modelled as exact reals: alpha_m as
\* the fraction <<numerator, denominator>> of its decimal literals, and the
\* sum of the 1.0 / (1u << element) as <<whole, frac>>, which stands for
\* whole + frac / 2^30 with frac < 2^30 (exact for registers in 0..30, and
\* the comparisons below are free of overflow for registers_count <= 64).
\* ------------------------------------------------------------------------

Unit == Pow2(30)

\* get_alpha_m()
get_alpha_m(kk) ==
    IF registers_count(kk) = 16 THEN <<673, 1000>>
    ELSE IF registers_count(kk) = 32 THEN <<697, 1000>>
    ELSE IF registers_count(kk) = 64 THEN <<709, 1000>>
    ELSE <<7213 * registers_count(kk), 10000 * registers_count(kk) + 10790>>

RECURSIVE HarmonicSum(_, _)
\* for (const auto& element : m_registers) count += 1.0 / (1u << element);
\* the sum over the registers from index i on
HarmonicSum(registers, i) ==
    IF i \notin DOMAIN registers THEN <<0, 0>>
    ELSE LET rest == HarmonicSum(registers, i + 1)
             frac == rest[2] + Pow2(30 - registers[i])
         IN  <<rest[1] + (frac \div Unit), frac % Unit>>

\* p <= q * z for numbers p, q with 0 < q < 2^16 and z = <<whole, frac>>
LeqTimes(p, q, z) ==
    LET d == p - q * z[1]
    IN  IF d <= 0 THEN TRUE
        ELSE IF d >= q THEN FALSE
        ELSE q * (z[2] \div Pow2(15)) + ((q * (z[2] % Pow2(15))) \div Pow2(15))
                >= d * Pow2(15)

\* estimation <= 2.5 * registers_count, estimation = alpha_m_squared / count:
\* alpha * m * m / z <= 2.5 * m  iff  2 * alpha_num * m <= 5 * alpha_den * z
SmallRange(alpha, mm, z) == LeqTimes(2 * alpha[1] * mm, 5 * alpha[2], z)

\* estimation > TWO_32_POWER / 30.0:
\* alpha * m * m / z > 2^32 / 30  iff  30 * alpha_num * m * m > 4 * alpha_den * (z * 2^30)
LargeRange(alpha, mm, z) ==
    /\ z[1] = 0
    /\ z[2] <= (30 * alpha[1] * mm * mm - 1) \div (4 * alpha[2])

\* static_cast<size_type>(registers_count * std::log(registers_count / zeros))
\* for 16 and 32 registers, indexed by zero_registers_count
LinearCounting(mm, zero_registers_count) ==
    IF mm = 16
    THEN <<44, 33, 26, 22, 18, 15, 13, 11, 9, 7, 5, 4, 3, 2, 1, 0>>[zero_registers_count]
    ELSE <<110, 88, 75, 66, 59, 53, 48, 44, 40, 37, 34, 31, 28, 26, 24, 22,
           20, 18, 16, 15, 13, 11, 10, 9, 7, 6, 5, 4, 3, 2, 1, 0>>[zero_registers_count]

\* count(): the branch taken, the number of zero registers it counted (0 where
\* it does not count them) and the returned estimate; in the branches without
\* linear counting the estimate is left as the real number it truncates
count(registers, kk) ==
    LET mm == registers_count(kk)
        alpha == get_alpha_m(kk)
        z == HarmonicSum(registers, 0)
        zero_registers_count == Cardinality({i \in DOMAIN registers : registers[i] = 0})
        raw == [alpha_m_squared |-> <<alpha[1] * mm * mm, alpha[2]>>, count |-> z]
    IN  IF SmallRange(alpha, mm, z)
        THEN IF zero_registers_count > 0
             THEN [branch |-> "linear_counting", zeros |-> zero_registers_count,
                   estimation |-> LinearCounting(mm, zero_registers_count)]
             ELSE [branch |-> "small_range_raw", zeros |-> 0, estimation |-> raw]
        ELSE IF LargeRange(alpha, mm, z)
             THEN [branch |-> "large_range", zeros |-> 0, estimation |-> raw]
             ELSE [branch |-> "raw", zeros |-> 0, estimation |-> raw]

\* ------------------------------------------------------------------------
\* The callers.  Two sketches of one precision are used through the public
\* operations, each on each.  stream, pure and last are history variables.
\* ------------------------------------------------------------------------

Sketches == {"A", "B"}

\* the precisions the sketches are instantiated with
Precisions == {4, 5}

\* the largest template argument tried for k, above the accepted range
MaxK == 33

KCandidates == 0..MaxK

\* the 16-bit halves the sampled hash results are built from
HalfSamples == {0, 3, 65535} \cup {Pow2(e) : e \in 0..15}

\* the hash results handed to the index and rank computation on their own
HashSamples == {Word(hi, lo) : hi \in HalfSamples, lo \in HalfSamples}

VARIABLES
    k,            \* the template argument k
    inst,         \* the outcome of instantiating hyper_log_log<T, k>
    m_registers,  \* m_registers of every sketch
    stream,       \* per sketch: the values it has seen since construction or the
                  \* last clear, by add or through the sketches merged into it
    pure,         \* per sketch: only add has changed it since construction or clear
    last,         \* the last operation, with what it observed
    hv            \* a hash_result for the index and rank computation of add

vars == <<k, inst, m_registers, stream, pure, last, hv>>

\* hyper_log_log<T, kk>: the static_assert, the static members and the
\* value-initialised registers (fill is the value of every register)
Instantiation(kk) ==
    IF static_assert_k(kk)
    THEN [status |-> "instantiated", registers_count |-> registers_count(kk),
          k_alternative |-> k_alternative(kk), fill |-> 0]
    ELSE [status |-> "ill_formed"]

Init ==
    /\ k \in Precisions
    /\ inst = Instantiation(k)
    /\ inst.status = "instantiated"
    /\ m_registers = [s \in Sketches |-> ZeroRegisters(k)]
    /\ stream = [s \in Sketches |-> {}]
    /\ pure = [s \in Sketches |-> TRUE]
    /\ last = [op |-> "construct"]
    /\ hv = Word(0, 0)

Add(s, value) ==
    /\ m_registers' = [m_registers EXCEPT ![s] = add(@, value, k)]
    /\ stream' = [stream EXCEPT ![s] = @ \cup {value}]
    /\ last' = [op |-> "add", s |-> s, value |-> value,
                index |-> RegisterIndex(hash[value], k),
                seen |-> value \in stream[s]]
    /\ UNCHANGED <<k, inst, pure, hv>>

Merge(s, t) ==
    /\ m_registers' = [m_registers EXCEPT ![s] = merge(@, m_registers[t])]
    /\ stream' = [stream EXCEPT ![s] = @ \cup stream[t]]
    /\ pure' = [pure EXCEPT ![s] = FALSE]
    /\ last' = [op |-> "merge", s |-> s, of_adds |-> pure[s] /\ pure[t]]
    /\ UNCHANGED <<k, inst, hv>>

PlusAssign(s, t) ==
    /\ m_registers' = [m_registers EXCEPT ![s] = operator_plus_assign(@, m_registers[t])]
    /\ stream' = [stream EXCEPT ![s] = @ \cup stream[t]]
    /\ pure' = [pure EXCEPT ![s] = FALSE]
    /\ last' = [op |-> "plus_assign", s |-> s, of_adds |-> pure[s] /\ pure[t]]
    /\ UNCHANGED <<k, inst, hv>>

\* d = s + t
Plus(d, s, t) ==
    /\ m_registers' = [m_registers EXCEPT ![d] = operator_plus(m_registers[s], m_registers[t])]
    /\ stream' = [stream EXCEPT ![d] = stream[s] \cup stream[t]]
    /\ pure' = [pure EXCEPT ![d] = FALSE]
    /\ last' = [op |-> "plus", s |-> d, of_adds |-> pure[s] /\ pure[t]]
    /\ UNCHANGED <<k, inst, hv>>

Clear(s) ==
    /\ m_registers' = [m_registers EXCEPT ![s] = clear(@)]
    /\ stream' = [stream EXCEPT ![s] = {}]
    /\ pure' = [pure EXCEPT ![s] = TRUE]
    /\ last' = [op |-> "clear", s |-> s,
                dirty |-> \E i \in DOMAIN m_registers[s] : m_registers[s][i] # 0]
    /\ UNCHANGED <<k, inst, hv>>

Count(s) ==
    /\ last' = [op |-> "count", s |-> s, result |-> count(m_registers[s], k)]
    /\ UNCHANGED <<k, inst, m_registers, stream, pure, hv>>

Next ==
    \/ \E s \in Sketches, value \in Values : Add(s, value)
    \/ \E s \in Sketches, t \in Sketches : Merge(s, t)
    \/ \E s \in Sketches, t \in Sketches : PlusAssign(s, t)
    \/ \E d \in Sketches, s \in Sketches, t \in Sketches : Plus(d, s, t)
    \/ \E s \in Sketches : Clear(s)
    \/ \E s \in Sketches : Count(s)

Spec == Init /\ [][Next]_vars

\* ------------------------------------------------------------------------
\* The instantiation of the template for any k, and the index and rank that
\* add computes from a hash result, on their own: no sketch of 2^30
\* registers is built.
\* ------------------------------------------------------------------------

InitRank ==
    /\ k \in KCandidates
    /\ hv \in HashSamples
    /\ inst = [status |-> "none"]
    /\ m_registers = <<>>
    /\ stream = <<>>
    /\ pure = <<>>
    /\ last = [op |-> "none"]

Instantiate ==
    /\ inst.status = "none"
    /\ inst' = Instantiation(k)
    /\ UNCHANGED <<k, m_registers, stream, pure, last, hv>>

\* the first statements of add, on the hash result hv
ComputeRank ==
    /\ inst.status = "instantiated"
    /\ last.op = "none"
    /\ last' = [op |-> "rank", shift |-> inst.k_alternative,
                index |-> RegisterIndex(hv, k),
                bits_count |-> count_bits(hv),
                rank |-> Rank(hv, k)]
    /\ UNCHANGED <<k, inst, m_registers, stream, pure, hv>>

NextRank == Instantiate \/ ComputeRank

SpecRank == InitRank /\ [][NextRank]_vars

\* ------------------------------------------------------------------------
\* The properties.  The index and the rank are stated again here from the
\* bits of the hash, apart from the shifts and count_bits of the code.
\* ------------------------------------------------------------------------

\* how often an add is repeated
MaxRepeat == 3

\* bit p of a hash result, bit 0 the least significant
Bit(h, p) ==
    IF p < 16 THEN (LowHalf(h) \div Pow2(p)) % 2
              ELSE (HighHalf(h) \div Pow2(p - 16)) % 2

\* the number held by the top kk bits of h, for kk in 1..30
TopBits(h, kk) ==
    IF kk <= 16 THEN HighHalf(h) \div Pow2(16 - kk)
    ELSE HighHalf(h) * Pow2(kk - 16) + (LowHalf(h) \div Pow2(32 - kk))

\* the positions of the set bits among the low w bits of h
SetBitsBelow(h, w) == {p \in 0..(w - 1) : Bit(h, p) = 1}

SetMin(S) == CHOOSE x \in S : \A y \in S : x <= y

SetMax(S) == CHOOSE x \in S : \A y \in S : x >= y

\* 1 + the position of the lowest set bit among the low 32 - kk bits of h,
\* and (32 - kk) + 1 when those bits are all zero
RankOfLowBits(h, kk) ==
    IF SetBitsBelow(h, 32 - kk) = {} THEN (32 - kk) + 1
    ELSE 1 + SetMin(SetBitsBelow(h, 32 - kk))

RegisterIndices == 0..(registers_count(k) - 1)

\* the registers of sketch s that are not zero
NonZero(s) == {i \in RegisterIndices : m_registers[s][i] # 0}

MergeOps == {"merge", "plus_assign", "plus"}

\* the orders in which the values of S can be added, each once
Orders(S) == {seq \in [1..Cardinality(S) -> S] : {seq[j] : j \in DOMAIN seq} = S}

RECURSIVE AddFirst(_, _, _)
\* a fresh sketch of precision kk after add of seq[1], ..., seq[j]
AddFirst(seq, j, kk) ==
    IF j = 0 THEN ZeroRegisters(kk) ELSE add(AddFirst(seq, j - 1, kk), seq[j], kk)

\* per precision, the registers of the sketches that add alone can build
BuiltByAdd ==
    [kk \in Precisions |->
        {AddFirst(seq, Len(seq), kk) : seq \in UNION {Orders(S) : S \in SUBSET Values}}]

RECURSIVE AddTimes(_, _, _)
\* the registers after add(value) is called times times in a row
AddTimes(registers, value, times) ==
    IF times = 0 THEN registers ELSE add(AddTimes(registers, value, times - 1), value, k)

\* C1: a sketch changed only by add since construction or the last clear holds
\* in every register i the largest rank of the added values whose hash has the
\* top k bits i, and 0 if there is none, whatever the order and the repetitions
\* of the adds.
C1_RegistersHoldMaxRank ==
    \A s \in Sketches : pure[s] =>
        \A i \in RegisterIndices :
            m_registers[s][i] =
                SetMax({0} \cup {RankOfLowBits(hash[v], k) :
                                    v \in {w \in stream[s] : TopBits(hash[w], k) = i}})

\* two added values met in one register with different ranks, the lower rank
\* added last
C1_Witness ==
    /\ last.op = "add" /\ ~last.seen /\ pure[last.s]
    /\ \E v \in stream[last.s] :
          /\ TopBits(hash[v], k) = TopBits(hash[last.value], k)
          /\ RankOfLowBits(hash[v], k) > RankOfLowBits(hash[last.value], k)

\* C2: after A.merge(B), A += B or C = A + B on sketches built by add alone,
\* the result has the registers of a fresh sketch that received add for every
\* value of both, in any order.
C2_MergeIsUnionOfStreams ==
    (last.op \in MergeOps /\ last.of_adds) =>
        \A seq \in Orders(stream[last.s]) :
            m_registers[last.s] = AddFirst(seq, Len(seq), k)

\* a merge of two sketches built by add: the one merged in is not empty and
\* the target holds a value it lacks
C2_Witness ==
    /\ last.op = "merge" /\ last.of_adds
    /\ \E t \in Sketches :
          /\ t # last.s /\ pure[t] /\ stream[t] # {}
          /\ stream[t] # stream[last.s] /\ stream[t] \subseteq stream[last.s]
    /\ Cardinality(NonZero(last.s)) >= 1

\* C3: merge and operator+ are commutative and associative on the registers
\* of any three sketches: the two in use and, in each place, any sketch that
\* add can build.
C3_MergeCommutativeAssociative ==
    LET InUse == {m_registers[s] : s \in Sketches}
        Operands == InUse \cup BuiltByAdd[k]
        Commute(ra, rb) ==
            /\ merge(ra, rb) = merge(rb, ra)
            /\ operator_plus(ra, rb) = operator_plus(rb, ra)
        Associate(ra, rb, rc) ==
            /\ merge(merge(ra, rb), rc) = merge(ra, merge(rb, rc))
            /\ operator_plus(operator_plus(ra, rb), rc)
                  = operator_plus(ra, operator_plus(rb, rc))
    IN  \A ra \in InUse, rb \in InUse, rc \in Operands :
            /\ Commute(ra, rc)
            /\ Associate(ra, rb, rc)
            /\ Associate(ra, rc, rb)
            /\ Associate(rc, ra, rb)

\* two sketches that union operations have changed, each with a register
\* above the other's
C3_Witness ==
    /\ ~pure["A"] /\ ~pure["B"]
    /\ \E i \in RegisterIndices, j \in RegisterIndices :
          /\ m_registers["A"][i] > m_registers["B"][i]
          /\ m_registers["B"][j] > m_registers["A"][j]

\* C4: from any reachable sketch, add(v) called 2..MaxRepeat times in a row
\* leaves the registers that add(v) called once leaves.
C4_AddIdempotent ==
    \A s \in Sketches, v \in Values, times \in 2..MaxRepeat :
        AddTimes(m_registers[s], v, times) = AddTimes(m_registers[s], v, 1)

\* a value was added to a sketch that had seen it, and add raises a register
\* of another sketch for it
C4_Witness ==
    /\ last.op = "add" /\ last.seen
    /\ m_registers[last.s][last.index] > 0
    /\ \E s \in Sketches : add(m_registers[s], last.value, k) # m_registers[s]

\* C5: in a step of add, merge, operator+= or count no register decreases: a
\* register decreases only in a clear step of its sketch (operator+ changes
\* neither operand; the sketch its result is assigned to is a new value).
C5_RegistersMonotonic ==
    [][\A s \in Sketches : \A i \in RegisterIndices :
          m_registers'[s][i] < m_registers[s][i] =>
              \/ last'.op = "clear" /\ last'.s = s
              \/ last'.op = "plus" /\ last'.s = s]_vars

\* an add after a merge: a sketch that both have raised
C5_Witness ==
    /\ last.op = "add" /\ ~last.seen /\ ~pure[last.s]
    /\ Cardinality(stream[last.s]) >= 2
    /\ m_registers[last.s][last.index] > 0

\* C6: after clear, and after construction, every register is 0 and count()
\* returns 0 from the linear-counting branch with all registers counted as zero.
C6_ClearResets ==
    LET Empty(s) ==
            /\ \A i \in RegisterIndices : m_registers[s][i] = 0
            /\ count(m_registers[s], k) =
                   [branch |-> "linear_counting", zeros |-> registers_count(k), estimation |-> 0]
    IN  /\ last.op = "clear" => Empty(last.s)
        /\ last.op = "construct" => \A s \in Sketches : Empty(s)
        /\ (last.op = "count" /\ pure[last.s] /\ stream[last.s] = {}) =>
               last.result = [branch |-> "linear_counting", zeros |-> registers_count(k),
                              estimation |-> 0]

\* a clear of a sketch that add and merge had raised
C6_Witness ==
    /\ last.op = "clear" /\ last.dirty
    /\ \E t \in Sketches : ~pure[t] /\ NonZero(t) # {}

\* C7 as stated: every register lies in 0..(32 - k).
C7_RegistersAtMost32MinusK ==
    \A s \in Sketches : \A i \in RegisterIndices :
        m_registers[s][i] >= 0 /\ m_registers[s][i] <= 32 - k

\* C7 as amended: every register lies in 0..(32 - k) + 1.
C7_RegistersAtMost33MinusK ==
    \A s \in Sketches : \A i \in RegisterIndices :
        m_registers[s][i] >= 0 /\ m_registers[s][i] <= (32 - k) + 1

\* a register at (32 - k) + 1, kept through a merge
C7_Witness ==
    \E s \in Sketches : \E i \in RegisterIndices :
        m_registers[s][i] = (32 - k) + 1 /\ ~pure[s]

\* C9: add changes at most the register at the top k bits of the hash, which
\* is an index of the array, and no register of any other sketch.
C9_AddChangesOneRegister ==
    [][last'.op = "add" =>
          /\ last'.index = TopBits(hash[last'.value], k)
          /\ last'.index \in RegisterIndices
          /\ \A s \in Sketches : \A i \in RegisterIndices :
                m_registers'[s][i] # m_registers[s][i] => (s = last'.s /\ i = last'.index)
          /\ \A s \in Sketches : DOMAIN m_registers'[s] = RegisterIndices]_vars

\* an add into a sketch that holds another register above zero
C9_Witness ==
    /\ last.op = "add" /\ ~last.seen
    /\ m_registers[last.s][last.index] > 0
    /\ NonZero(last.s) \ {last.index} # {}

\* C8: the template is instantiated exactly for 4 <= k <= 30, then with 2^k
\* registers, all zero, and with a shift 32 - k in 2..28 for every operation;
\* any other k is rejected and yields no sketch and no operation.
C8_PrecisionRange ==
    /\ inst.status # "none" =>
          /\ inst.status = "instantiated" <=> (4 <= k /\ k <= 30)
          /\ inst.status = "instantiated" =>
                /\ inst.registers_count = 2 ^ k
                /\ inst.fill = 0
                /\ inst.k_alternative = 32 - k
                /\ inst.k_alternative \in 2..28
          /\ inst.status # "instantiated" => inst = [status |-> "ill_formed"]
    /\ last.op = "rank" =>
          /\ inst.status = "instantiated"
          /\ last.shift \in 2..28
          /\ last.index \in 0..(inst.registers_count - 1)

\* the largest accepted k, instantiated and used
C8_Witness ==
    /\ k = 30 /\ inst.status = "instantiated" /\ last.op = "rank"
    /\ last.index = inst.registers_count - 1

\* C10: the rank of add is 1 + the position of the lowest set bit among the low
\* 32 - k bits of the hash, (32 - k) + 1 when these are all zero, and
\* count_bits is the number of trailing zero bits of a hash that is not zero.
C10_RankOfLowBits ==
    last.op = "rank" =>
        /\ last.rank = RankOfLowBits(hv, k)
        /\ hv # Word(0, 0) => last.bits_count = SetMin(SetBitsBelow(hv, 32))

\* the hash 0: count_bits returns 31 and the rank is clamped to (32 - k) + 1
C10_Witness ==
    /\ last.op = "rank"
    /\ hv = Word(0, 0)
    /\ last.rank = (32 - k) + 1

====
